---- MODULE Spec2Model ----
(***************************************************************************)
(* Model of src/src/App.vue (colour-checker): the colour codec             *)
(* (hexToRgb, rgbToHex, rgbToYcbcr, ycbcrToRgb), the derived colorInfo,    *)
(* the input handler validateAndConvertColor and the inputType watcher.    *)
(*                                                                         *)
(* A JavaScript string is modelled as a sequence of one-character strings, *)
(* so that the regular expressions, parseInt, toString(16), slice and      *)
(* toUpperCase are computed character by character.  A JavaScript Number   *)
(* that is not an integer is modelled as the IEEE-754 binary64 value the   *)
(* engine computes: see the section "binary64" below.                      *)
(***************************************************************************)
EXTENDS Integers, Sequences, FiniteSets, TLC

VARIABLES
    colorInput,    \* ref('')        : the raw text of the input field
    inputType,     \* ref('hex')     : the declared input format
    currentColor,  \* ref('#3B82F6') : the last accepted colour, a HEX string
    sample,        \* codec harness: the (r, g, b) argument under test
    codec          \* codec harness: results of the codec functions on sample

vars == <<colorInput, inputType, currentColor, sample, codec>>

(***************************************************************************)
(* Characters                                                              *)
(***************************************************************************)

\* null, and the absence of a regular-expression match.
Null == [null |-> TRUE]

\* The digits Number.prototype.toString(16) produces, by value.
HexDigits ==
    <<"0", "1", "2", "3", "4", "5", "6", "7", "8", "9", "a", "b", "c", "d", "e", "f">>

\* The letters of the modelled alphabet, lower case and upper case.
LowerLetters == <<"a", "b", "c", "d", "e", "f", "g", "x">>
UpperLetters == <<"A", "B", "C", "D", "E", "F", "G", "X">>

\* \d
IsDigit(c) == c \in {"0", "1", "2", "3", "4", "5", "6", "7", "8", "9"}

\* \s, on the modelled alphabet
IsSpace(c) == c \in {" ", "\t"}

toLowerCaseChar(c) ==
    IF \E i \in 1..Len(UpperLetters) : UpperLetters[i] = c
    THEN LowerLetters[CHOOSE i \in 1..Len(UpperLetters) : UpperLetters[i] = c]
    ELSE c

toUpperCaseChar(c) ==
    IF \E i \in 1..Len(LowerLetters) : LowerLetters[i] = c
    THEN UpperLetters[CHOOSE i \in 1..Len(LowerLetters) : LowerLetters[i] = c]
    ELSE c

\* String.prototype.toUpperCase
toUpperCase(s) == [i \in 1..Len(s) |-> toUpperCaseChar(s[i])]

\* [0-9A-Fa-f], which is also [a-f\d] under the i flag
IsHexDigit(c) ==
    \E i \in 1..Len(HexDigits) : HexDigits[i] = toLowerCaseChar(c)

\* The value of a digit, as parseInt reads it in any radix up to 16.
DigitValue(c) ==
    (CHOOSE i \in 1..Len(HexDigits) : HexDigits[i] = toLowerCaseChar(c)) - 1

\* parseInt(s, radix) for a non-empty s made of digits of that radix.
RECURSIVE parseInt(_, _)
parseInt(s, radix) ==
    IF Len(s) = 0 THEN 0
    ELSE parseInt(SubSeq(s, 1, Len(s) - 1), radix) * radix + DigitValue(s[Len(s)])

\* Number.prototype.toString(16) for n >= 0.
RECURSIVE toString16(_)
toString16(n) ==
    IF n < 16 THEN <<HexDigits[n + 1]>>
    ELSE toString16(n \div 16) \o <<HexDigits[(n % 16) + 1]>>

\* String.prototype.startsWith('#')
startsWithHash(s) == Len(s) > 0 /\ s[1] = "#"

(***************************************************************************)
(* HEX <-> RGB                                                             *)
(***************************************************************************)

\* /^#?([a-f\d]{2})([a-f\d]{2})([a-f\d]{2})$/i.exec(hex): the three groups,
\* or Null.
hexToRgbExec(hex) ==
    LET body == IF startsWithHash(hex) THEN Tail(hex) ELSE hex
    IN  IF Len(body) = 6 /\ \A i \in 1..6 : IsHexDigit(body[i])
        THEN <<SubSeq(body, 1, 2), SubSeq(body, 3, 4), SubSeq(body, 5, 6)>>
        ELSE Null

\* A faulty variant: the channels are read in decimal.
hexToRgbDecimal(hex) ==
    LET result == hexToRgbExec(hex)
    IN  IF result # Null
        THEN [r |-> parseInt(result[1], 10),
              g |-> parseInt(result[2], 10),
              b |-> parseInt(result[3], 10)]
        ELSE Null

hexToRgb(hex) ==
    LET result == hexToRgbExec(hex)
    IN  IF result # Null
        THEN [r |-> parseInt(result[1], 16),
              g |-> parseInt(result[2], 16),
              b |-> parseInt(result[3], 16)]
        ELSE Null

\* A faulty variant: the digits are upper-cased.
rgbToHexUpper(r, g, b) ==
    <<"#">> \o toUpperCase(Tail(toString16((2 ^ 24) + r * (2 ^ 16) + g * (2 ^ 8) + b)))

\* "#" + ((1 << 24) + (r << 16) + (g << 8) + b).toString(16).slice(1)
rgbToHex(r, g, b) ==
    <<"#">> \o Tail(toString16((2 ^ 24) + r * (2 ^ 16) + g * (2 ^ 8) + b))

(***************************************************************************)
(* binary64                                                                *)
(*                                                                         *)
(* Every Number the two YCbCr conversions compute is a multiple of 2^-56   *)
(* below 2^9 in magnitude: the coefficients are doubles in [2^-4, 2^2) and *)
(* so multiples of 2^-56, they are multiplied by integers below 2^8, and   *)
(* rounding a sum or product to 53 significant bits only coarsens it.  A   *)
(* Number is therefore a sign and a magnitude counted in units of 2^-56,   *)
(* the magnitude held in three limbs of 22 bits <<hi, mid, lo>>, and each  *)
(* arithmetic operation is the exact operation followed by rounding to 53  *)
(* significant bits, ties to even.                                         *)
(***************************************************************************)

Limb == 2 ^ 22

\* One, in units of 2^-56, is 2^12 in the high limb.
HiOne == 2 ^ 12

\* Carries (or borrows) propagated from the low limb up.
Normalize(a2, a1, a0) ==
    LET c0 == a0 \div Limb
        c1 == (a1 + c0) \div Limb
    IN  <<a2 + c1, (a1 + c0) % Limb, a0 % Limb>>

MagLt(a, b) ==
    \/ a[1] < b[1]
    \/ a[1] = b[1] /\ a[2] < b[2]
    \/ a[1] = b[1] /\ a[2] = b[2] /\ a[3] < b[3]

\* Round to nearest, ties to even, to 53 significant bits.  A magnitude below
\* 2^53 units (hi < 2^9) is exact; otherwise the s = bitlength - 53 <= 12 low
\* bits, all in the low limb, are rounded away.
Round53(m) ==
    IF m[1] < 2 ^ 9 THEN m
    ELSE LET s    == CHOOSE k \in 1..12 : m[1] < 2 ^ (9 + k) /\ m[1] >= 2 ^ (8 + k)
             q    == 2 ^ s
             rem  == m[3] % q
             keep == m[3] - rem
         IN  IF 2 * rem > q \/ (2 * rem = q /\ (m[3] \div q) % 2 = 1)
             THEN Normalize(m[1], m[2], keep + q)
             ELSE <<m[1], m[2], keep>>

\* An integer as a Number.
FromInt(n) ==
    [neg |-> n < 0, mag |-> <<(IF n < 0 THEN -n ELSE n) * HiOne, 0, 0>>]

\* A positive literal as a Number.
Literal(m) == [neg |-> FALSE, mag |-> m]

\* x * n for a Number x and an integer-valued Number n.
FMul(x, n) ==
    LET a == IF n < 0 THEN -n ELSE n
    IN  [neg |-> (x.neg # (n < 0)),
         mag |-> Round53(Normalize(x.mag[1] * a, x.mag[2] * a, x.mag[3] * a))]

\* x + y
FAdd(x, y) ==
    IF x.neg = y.neg
    THEN [neg |-> x.neg,
          mag |-> Round53(Normalize(x.mag[1] + y.mag[1], x.mag[2] + y.mag[2],
                                    x.mag[3] + y.mag[3]))]
    ELSE IF MagLt(x.mag, y.mag)
    THEN [neg |-> y.neg,
          mag |-> Round53(Normalize(y.mag[1] - x.mag[1], y.mag[2] - x.mag[2],
                                    y.mag[3] - x.mag[3]))]
    ELSE [neg |-> x.neg,
          mag |-> Round53(Normalize(x.mag[1] - y.mag[1], x.mag[2] - y.mag[2],
                                    x.mag[3] - y.mag[3]))]

\* x - y
FSub(x, y) == FAdd(x, [neg |-> ~y.neg, mag |-> y.mag])

IsZero(x) == x.mag = <<0, 0, 0>>

\* x < y
FLt(x, y) ==
    IF IsZero(x) /\ IsZero(y) THEN FALSE
    ELSE IF x.neg # y.neg THEN (IF IsZero(x) THEN ~y.neg ELSE x.neg)
    ELSE IF x.neg THEN MagLt(y.mag, x.mag)
    ELSE MagLt(x.mag, y.mag)

\* Math.min and Math.max of two Numbers.
MathMin(x, y) == IF FLt(y, x) THEN y ELSE x
MathMax(x, y) == IF FLt(x, y) THEN y ELSE x

\* The integer part and whether the fraction is >= 1/2, > 1/2.
IntPart(m)  == m[1] \div HiOne
FracGeHalf(m) == m[1] % HiOne >= HiOne \div 2
FracGtHalf(m) ==
    \/ m[1] % HiOne > HiOne \div 2
    \/ m[1] % HiOne = HiOne \div 2 /\ (m[2] > 0 \/ m[3] > 0)

\* Math.round: the nearest integer, a half rounding towards +infinity.
MathRound(x) ==
    IF x.neg
    THEN -(IntPart(x.mag) + (IF FracGtHalf(x.mag) THEN 1 ELSE 0))
    ELSE IntPart(x.mag) + (IF FracGeHalf(x.mag) THEN 1 ELSE 0)

\* Math.floor, a faulty stand-in for Math.round.
MathFloor(x) ==
    IF x.neg
    THEN -(IntPart(x.mag) + (IF x.mag[1] % HiOne > 0 \/ x.mag[2] > 0 \/ x.mag[3] > 0
                             THEN 1 ELSE 0))
    ELSE IntPart(x.mag)

\* Math.max and Math.min of integers.
Max(a, b) == IF a < b THEN b ELSE a
Min(a, b) == IF b < a THEN b ELSE a

\* The doubles the decimal literals of the source denote, in units of 2^-56.
K0299    == Literal(<<1224, 2952790, 67108>>)       \* 0.299
K0587    == Literal(<<2404, 1476395, 33552>>)       \* 0.587
K0114    == Literal(<<466, 3959422, 4093641>>)      \* 0.114
K0168736 == Literal(<<691, 598342, 2648384>>)       \* 0.168736
K0331264 == Literal(<<1356, 3595961, 1545920>>)     \* 0.331264
K05      == Literal(<<2048, 0, 0>>)                 \* 0.5
K0418688 == Literal(<<1714, 3968012, 3819300>>)     \* 0.418688
K0081312 == Literal(<<333, 226291, 375004>>)        \* 0.081312
K1164    == Literal(<<4767, 3120562, 738192>>)      \* 1.164
K1596    == Literal(<<6537, 905969, 2785024>>)      \* 1.596
K0392    == Literal(<<1605, 2650800, 536872>>)      \* 0.392
K0813    == Literal(<<3330, 201326, 2483024>>)      \* 0.813
K2017    == Literal(<<8261, 2650800, 536864>>)      \* 2.017

(***************************************************************************)
(* RGB <-> YCbCr                                                           *)
(***************************************************************************)

\* const y = 0.299 * r + 0.587 * g + 0.114 * b
yOf(r, g, b) == FAdd(FAdd(FMul(K0299, r), FMul(K0587, g)), FMul(K0114, b))

\* const cb = 128 - 0.168736 * r - 0.331264 * g + 0.5 * b
cbOf(r, g, b) ==
    FAdd(FSub(FSub(FromInt(128), FMul(K0168736, r)), FMul(K0331264, g)), FMul(K05, b))

\* const cr = 128 + 0.5 * r - 0.418688 * g - 0.081312 * b
crOf(r, g, b) ==
    FSub(FSub(FAdd(FromInt(128), FMul(K05, r)), FMul(K0418688, g)), FMul(K0081312, b))

\* A faulty variant: y is rounded but not clamped.
rgbToYcbcrUnclampedY(r, g, b) ==
    [y  |-> MathRound(yOf(r, g, b)),
     cb |-> MathRound(MathMax(FromInt(16), MathMin(FromInt(240), cbOf(r, g, b)))),
     cr |-> MathRound(MathMax(FromInt(16), MathMin(FromInt(240), crOf(r, g, b))))]

\* A faulty variant: the clamped values are truncated, not rounded.
rgbToYcbcrFloor(r, g, b) ==
    [y  |-> MathFloor(MathMax(FromInt(16), MathMin(FromInt(235), yOf(r, g, b)))),
     cb |-> MathFloor(MathMax(FromInt(16), MathMin(FromInt(240), cbOf(r, g, b)))),
     cr |-> MathFloor(MathMax(FromInt(16), MathMin(FromInt(240), crOf(r, g, b))))]

rgbToYcbcr(r, g, b) ==
    [y  |-> MathRound(MathMax(FromInt(16), MathMin(FromInt(235), yOf(r, g, b)))),
     cb |-> MathRound(MathMax(FromInt(16), MathMin(FromInt(240), cbOf(r, g, b)))),
     cr |-> MathRound(MathMax(FromInt(16), MathMin(FromInt(240), crOf(r, g, b))))]

ycbcrToRgb(y, cb, cr) ==
    LET yAdj  == y - 16
        cbAdj == cb - 128
        crAdj == cr - 128
        r == FAdd(FMul(K1164, yAdj), FMul(K1596, crAdj))
        g == FSub(FSub(FMul(K1164, yAdj), FMul(K0392, cbAdj)), FMul(K0813, crAdj))
        b == FAdd(FMul(K1164, yAdj), FMul(K2017, cbAdj))
    IN  [r |-> Max(0, Min(255, MathRound(r))),
         g |-> Max(0, Min(255, MathRound(g))),
         b |-> Max(0, Min(255, MathRound(b)))]

\* const colorInfo = computed(...)
colorInfo(cur) ==
    IF cur = <<>> THEN Null
    ELSE LET rgb == hexToRgb(cur)
         IN  IF rgb = Null THEN Null
             ELSE [hex   |-> toUpperCase(cur),
                   rgb   |-> rgb,
                   ycbcr |-> rgbToYcbcr(rgb.r, rgb.g, rgb.b)]

(***************************************************************************)
(* validateAndConvertColor                                                 *)
(***************************************************************************)

\* The index just past the longest run of \d (of \s) that starts at i.
RECURSIVE DigitsEnd(_, _)
DigitsEnd(s, i) ==
    IF i <= Len(s) /\ IsDigit(s[i]) THEN DigitsEnd(s, i + 1) ELSE i

RECURSIVE SpacesEnd(_, _)
SpacesEnd(s, i) ==
    IF i <= Len(s) /\ IsSpace(s[i]) THEN SpacesEnd(s, i + 1) ELSE i

\* /(\d+),\s*(\d+),\s*(\d+)/ tried at index i: the three groups, or Null.  The
\* quantifiers are greedy and no shorter run can match: the character after a
\* shortened \d+ is a digit, not a comma, and the one after a shortened \s* is
\* a space, not a digit.
matchAt(s, i) ==
    LET e1 == DigitsEnd(s, i)
        b2 == SpacesEnd(s, e1 + 1)
        e2 == DigitsEnd(s, b2)
        b3 == SpacesEnd(s, e2 + 1)
        e3 == DigitsEnd(s, b3)
    IN  IF /\ e1 > i /\ e1 <= Len(s) /\ s[e1] = ","
           /\ e2 > b2 /\ e2 <= Len(s) /\ s[e2] = ","
           /\ e3 > b3
        THEN <<SubSeq(s, i, e1 - 1), SubSeq(s, b2, e2 - 1), SubSeq(s, b3, e3 - 1)>>
        ELSE Null

\* colorInput.value.match(/(\d+),\s*(\d+),\s*(\d+)/): the leftmost match.
RECURSIVE matchFrom(_, _)
matchFrom(s, i) ==
    IF i > Len(s) THEN Null
    ELSE LET m == matchAt(s, i)
         IN  IF m # Null THEN m ELSE matchFrom(s, i + 1)

threeIntMatch(s) == matchFrom(s, 1)

\* A faulty variant: the '#' is required, not optional.
hexInputTestHashRequired(s) ==
    startsWithHash(s) /\ Len(s) = 7 /\ \A i \in 2..7 : IsHexDigit(s[i])

\* /^#?[0-9A-Fa-f]{6}$/.test(s)
hexInputTest(s) ==
    LET body == IF startsWithHash(s) THEN Tail(s) ELSE s
    IN  Len(body) = 6 /\ \A i \in 1..6 : IsHexDigit(body[i])

\* A faulty variant: the text is stored as typed, without the leading '#'.
convertHexUnprefixed(input, cur) ==
    IF hexInputTest(input)
    THEN IF hexToRgb(input) # Null THEN input ELSE cur
    ELSE cur

\* case 'hex'
convertHex(input, cur) ==
    IF hexInputTest(input)
    THEN LET hex == IF startsWithHash(input) THEN input ELSE <<"#">> \o input
             rgb == hexToRgb(hex)
         IN  IF rgb # Null THEN hex ELSE cur
    ELSE cur

\* A faulty variant: an out-of-range channel is clamped into the byte range.
convertRgbClamping(input, cur) ==
    LET rgbMatch == threeIntMatch(input)
    IN  IF rgbMatch # Null
        THEN rgbToHex(Min(255, parseInt(rgbMatch[1], 10)),
                      Min(255, parseInt(rgbMatch[2], 10)),
                      Min(255, parseInt(rgbMatch[3], 10)))
        ELSE cur

\* case 'rgb'
convertRgb(input, cur) ==
    LET rgbMatch == threeIntMatch(input)
    IN  IF rgbMatch # Null
        THEN LET r == parseInt(rgbMatch[1], 10)
                 g == parseInt(rgbMatch[2], 10)
                 b == parseInt(rgbMatch[3], 10)
             IN  IF r >= 0 /\ r <= 255 /\ g >= 0 /\ g <= 255 /\ b >= 0 /\ b <= 255
                 THEN rgbToHex(r, g, b)
                 ELSE cur
        ELSE cur

\* case 'ycbcr'
convertYcbcr(input, cur) ==
    LET ycbcrMatch == threeIntMatch(input)
    IN  IF ycbcrMatch # Null
        THEN LET y  == parseInt(ycbcrMatch[1], 10)
                 cb == parseInt(ycbcrMatch[2], 10)
                 cr == parseInt(ycbcrMatch[3], 10)
             IN  IF /\ y >= 16 /\ y <= 235 /\ cb >= 16 /\ cb <= 240
                    /\ cr >= 16 /\ cr <= 240
                 THEN LET rgb == ycbcrToRgb(y, cb, cr)
                      IN  rgbToHex(rgb.r, rgb.g, rgb.b)
                 ELSE cur
        ELSE cur

\* A faulty variant: a text that does not match blanks the colour.
validateAndConvertColorResetting(input, type, cur) ==
    IF input = <<>> THEN cur
    ELSE LET new == IF type = "hex" THEN convertHex(input, <<>>)
                    ELSE IF type = "rgb" THEN convertRgb(input, <<>>)
                    ELSE convertYcbcr(input, <<>>)
         IN  new

\* validateAndConvertColor: the value of currentColor when it returns.
validateAndConvertColor(input, type, cur) ==
    IF input = <<>> THEN cur
    ELSE IF type = "hex" THEN convertHex(input, cur)
    ELSE IF type = "rgb" THEN convertRgb(input, cur)
    ELSE IF type = "ycbcr" THEN convertYcbcr(input, cur)
    ELSE cur

\* A faulty variant: the watcher leaves the text in place.
watchInputTypeKeeping(input) == input

\* watch(inputType, () => { colorInput.value = '' }): the value of colorInput
\* when the watcher returns.
watchInputType(input) == <<>>

(***************************************************************************)
(* The texts a user types or pastes                                        *)
(***************************************************************************)

\* The longest run of blanks put after a comma.
MaxSpaces == 1

\* The codec is exercised on a grid of GridSize + 1 levels per channel.
GridSize == 11

Types == {"hex", "rgb", "ycbcr"}

\* The decimal numeral of n >= 0.
RECURSIVE Decimal(_)
Decimal(n) ==
    IF n < 10 THEN <<HexDigits[n + 1]>>
    ELSE Decimal(n \div 10) \o <<HexDigits[(n % 10) + 1]>>

Spaces(n) == [i \in 1..n |-> " "]

\* "a,b,c" with sep after each comma.
ThreeInts(t, sep) ==
    Decimal(t[1]) \o <<",">> \o sep \o Decimal(t[2]) \o <<",">> \o sep \o Decimal(t[3])

\* The limits of the two numeric formats, and their neighbours: of y and of a
\* byte, of cb and cr and of a byte.
YEdges == {15, 16, 235, 236, 255, 256}
CEdges == {15, 16, 240, 241, 255, 256}

\* The placeholder 120, 128, 150 with one value moved to an edge.
EdgeTriples ==
    {<<v, 128, 150>> : v \in YEdges}
    \cup {<<120, v, 150>> : v \in CEdges}
    \cup {<<120, 128, v>> : v \in CEdges}

CornerTriples ==
    {<<0, 0, 0>>, <<255, 255, 255>>, <<59, 130, 246>>, <<999, 999, 999>>,
     <<15, 128, 128>>, <<16, 16, 16>>, <<235, 240, 240>>, <<120, 128, 150>>}

\* The triples also written with blanks after the commas.
SpacedTriples == {<<59, 130, 246>>, <<235, 240, 240>>, <<999, 999, 999>>}

NumberTexts ==
    {ThreeInts(t, <<>>) : t \in EdgeTriples \cup CornerTriples}
    \cup {ThreeInts(t, Spaces(n)) : t \in SpacedTriples, n \in 1..MaxSpaces}
    \cup {
        <<"1", "2", ",", "3", "4">>,                               \* 12,34
        <<"1", ",", "2", ",", ",", "3", ",", "4", ",", "5">>,      \* 1,2,,3,4,5
        <<"x", "1", ",", "\t", "2", ",", "3", "x">>,               \* x1,<tab>2,3x
        <<"0", "2", "5", "5", ",", "0", "0", "0", ",", "0", "0", "7">>, \* 0255,000,007
        <<"9", "9", "9", ",", "1", "6", ",", "1", "7", ",", "1", "8">>, \* 999,16,17,18
        <<"1", "6", " ", ",", "1", "7", ",", "1", "8">>,           \* 16 ,17,18
        <<"1", "6", ",", "1", "7", ",", "2", "5", "6", "0">>       \* 16,17,2560
    }

HexTexts ==
    {
        <<"#", "3", "B", "8", "2", "F", "6">>,
        <<"3", "b", "8", "2", "f", "6">>,
        <<"3", "B", "8", "2", "F">>,
        <<"#", "3", "B", "8", "2", "F">>,
        <<"3", "B", "8", "2", "F", "6", "A">>,
        <<"#", "3", "B", "8", "2", "F", "6", "A">>,
        <<"#", "F", "F", "F">>,
        <<"#", "0", "0", "0", "0", "0", "g">>,
        <<"x", "3", "b", "8", "2", "f", "6">>,
        <<"#", "3", "B", "8", "2", "F", "6", " ">>,
        <<"#", "#", "3", "B", "8", "2", "F", "6">>,
        <<"#", "0", "0", "0", "0", "0", "0">>,
        <<"f", "f", "F", "F", "f", "f">>,
        <<"1", "2", "3", "4", "5", "6">>,
        <<"#">>
    }

\* Every text the input field is given, the empty text included.
Texts == {<<>>} \cup HexTexts \cup NumberTexts

(***************************************************************************)
(* The component                                                           *)
(***************************************************************************)

\* ref('#3B82F6')
DefaultColor == <<"#", "3", "B", "8", "2", "F", "6">>

Init ==
    /\ colorInput = <<>>
    /\ inputType = "hex"
    /\ currentColor = DefaultColor
    /\ sample = [r |-> 59, g |-> 130, b |-> 246]
    /\ codec = [op |-> "none", val |-> Null]

\* <input v-model="colorInput" @input="validateAndConvertColor">: the field's
\* text becomes `text`, then the handler runs.
Input(text) ==
    /\ colorInput' = text
    /\ currentColor' = validateAndConvertColor(text, inputType, currentColor)
    /\ UNCHANGED <<inputType, sample, codec>>

\* <button @click="validateAndConvertColor">
Convert ==
    /\ currentColor' = validateAndConvertColor(colorInput, inputType, currentColor)
    /\ UNCHANGED <<colorInput, inputType, sample, codec>>

\* <button @click="inputType = type">: the watcher runs when the value changed.
SelectType(type) ==
    /\ inputType' = type
    /\ colorInput' = IF type # inputType THEN watchInputType(colorInput) ELSE colorInput
    /\ UNCHANGED <<currentColor, sample, codec>>

Next ==
    \/ \E text \in Texts : Input(text)
    \/ Convert
    \/ \E type \in Types : SelectType(type)

Spec == Init /\ [][Next]_vars

(***************************************************************************)
(* The codec on its own: each function applied to a sampled argument       *)
(***************************************************************************)

Levels == {(k * 255) \div GridSize : k \in 0..GridSize}

\* Arguments off the grid: where 0.418688 * g + 0.081312 * b is a half in exact
\* arithmetic, and near the limits of the clamps.
OffGrid ==
    {<<0, 21, 21>>, <<0, 36, 12>>, <<59, 130, 246>>, <<230, 235, 235>>,
     <<1, 0, 0>>, <<16, 16, 16>>, <<235, 235, 235>>, <<236, 236, 236>>}

Samples ==
    {[r |-> t[1], g |-> t[2], b |-> t[3]] : t \in (Levels \X Levels \X Levels) \cup OffGrid}

CodecInit ==
    /\ colorInput = <<>>
    /\ inputType = "hex"
    /\ currentColor = DefaultColor
    /\ sample \in Samples
    /\ codec = [op |-> "none", val |-> Null]

ApplyRgbToHex ==
    /\ codec.op = "none"
    /\ codec' = [op |-> "rgbToHex", val |-> rgbToHex(sample.r, sample.g, sample.b)]
    /\ UNCHANGED <<colorInput, inputType, currentColor, sample>>

ApplyHexToRgb ==
    /\ codec.op = "rgbToHex"
    /\ codec' = [op |-> "hexToRgb", val |-> hexToRgb(codec.val)]
    /\ UNCHANGED <<colorInput, inputType, currentColor, sample>>

ApplyRgbToYcbcr ==
    /\ codec.op = "none"
    /\ codec' = [op |-> "rgbToYcbcr", val |-> rgbToYcbcr(sample.r, sample.g, sample.b)]
    /\ UNCHANGED <<colorInput, inputType, currentColor, sample>>

ApplyYcbcrToRgb ==
    /\ codec.op = "rgbToYcbcr"
    /\ codec' = [op |-> "ycbcrToRgb",
                 val |-> ycbcrToRgb(codec.val.y, codec.val.cb, codec.val.cr)]
    /\ UNCHANGED <<colorInput, inputType, currentColor, sample>>

CodecNext ==
    \/ ApplyRgbToHex
    \/ ApplyHexToRgb
    \/ ApplyRgbToYcbcr
    \/ ApplyYcbcrToRgb

CodecSpec == CodecInit /\ [][CodecNext]_vars

(***************************************************************************)
(* Properties of the component (Spec)                                      *)
(***************************************************************************)

\* The three integers of a match m.
IntsOf(m) == <<parseInt(m[1], 10), parseInt(m[2], 10), parseInt(m[3], 10)>>

\* The declared range of each numeric format.
InDeclaredRange(type, t) ==
    IF type = "rgb"
    THEN \A i \in 1..3 : 0 <= t[i] /\ t[i] <= 255
    ELSE /\ 16 <= t[1] /\ t[1] <= 235
         /\ 16 <= t[2] /\ t[2] <= 240
         /\ 16 <= t[3] /\ t[3] <= 240

\* An optional '#' followed by exactly 6 hexadecimal digits, and nothing else.
IsHexForm(text) ==
    \/ Len(text) = 6 /\ \A i \in 1..6 : IsHexDigit(text[i])
    \/ Len(text) = 7 /\ text[1] = "#" /\ \A i \in 2..7 : IsHexDigit(text[i])

\* An input event (text, type) is rejected: the text is empty, or does not
\* match the format's pattern, or a parsed value is outside the format's range.
Rejected(text, type) ==
    \/ text = <<>>
    \/ type = "hex" /\ ~IsHexForm(text)
    \/ /\ type \in {"rgb", "ycbcr"}
       /\ \E m \in {threeIntMatch(text)} :
            m = Null \/ ~InDeclaredRange(type, IntsOf(m))

\* C1: an input event that is rejected (empty text, no match of the format's
\* pattern, or a parsed value outside the format's range) leaves currentColor,
\* and with it the displayed colorInfo, exactly as it was.  Every step that
\* keeps inputType runs validateAndConvertColor on the text colorInput holds
\* afterwards.
C1_RejectionKeepsColor ==
    [][(inputType' = inputType /\ Rejected(colorInput', inputType))
        => currentColor' = currentColor]_vars

\* A rejected text sits in the field and an earlier accepted colour survives.
C1_Witness ==
    /\ inputType = "rgb"
    /\ colorInput = ThreeInts(<<999, 999, 999>>, <<>>)
    /\ Rejected(colorInput, inputType)
    /\ currentColor = <<"#", "f", "f", "f", "f", "f", "f">>

\* C2: a switch of the declared format to a different one empties colorInput
\* and leaves currentColor unchanged, whatever inputs came before.
C2_SwitchClearsTextKeepsColor ==
    [][inputType' # inputType
        => (colorInput' = <<>> /\ currentColor' = currentColor)]_vars

\* The format was switched after a colour had been accepted under ycbcr.
C2_Witness ==
    /\ inputType = "rgb"
    /\ colorInput = <<>>
    /\ currentColor = rgbToHex(ycbcrToRgb(120, 128, 150).r,
                               ycbcrToRgb(120, 128, 150).g,
                               ycbcrToRgb(120, 128, 150).b)
    /\ currentColor # DefaultColor

\* C7: under rgb and ycbcr, a text with a three-integer match (a, b, c) is
\* accepted exactly when every value is within the format's bounds; out of
\* bounds the colour is left as it was (nothing is clamped); accepted under rgb
\* the colour's RGB is (a, b, c), under ycbcr it is ycbcrToRgb(a, b, c).
C7_NumericAcceptance ==
    [][(inputType' = inputType /\ inputType \in {"rgb", "ycbcr"})
        => \A m \in {threeIntMatch(colorInput')} :
             m # Null =>
               \A t \in {IntsOf(m)} :
                 IF InDeclaredRange(inputType, t)
                 THEN hexToRgb(currentColor') =
                          IF inputType = "rgb"
                          THEN [r |-> t[1], g |-> t[2], b |-> t[3]]
                          ELSE ycbcrToRgb(t[1], t[2], t[3])
                 ELSE currentColor' = currentColor]_vars

\* A ycbcr text at the upper bounds of all three values has been accepted.
C7_Witness ==
    /\ inputType = "ycbcr"
    /\ threeIntMatch(colorInput) # Null
    /\ IntsOf(threeIntMatch(colorInput)) = <<235, 240, 240>>
    /\ hexToRgb(currentColor) = ycbcrToRgb(235, 240, 240)

\* The byte a pair of hexadecimal digits denotes, in either case.
HexByte(text, i) == 16 * DigitValue(text[i]) + DigitValue(text[i + 1])

\* The three bytes of a text of the hex form, with or without its '#'.
HexBytes(text) ==
    LET o == IF Len(text) = 7 THEN 1 ELSE 0
    IN  [r |-> HexByte(text, o + 1), g |-> HexByte(text, o + 3), b |-> HexByte(text, o + 5)]

\* C8: under hex, a text is accepted exactly when the whole of it is an
\* optional '#' and 6 hexadecimal digits of either case; the accepted colour's
\* RGB is the three bytes of the three digit pairs, with or without the '#'
\* and in either case; any other text leaves the colour as it was.
C8_HexAcceptance ==
    [][(inputType' = inputType /\ inputType = "hex" /\ colorInput' # <<>>)
        => IF IsHexForm(colorInput')
           THEN hexToRgb(currentColor') = HexBytes(colorInput')
           ELSE currentColor' = currentColor]_vars

\* The lower-case text without '#' has been accepted as (59, 130, 246).
C8_Witness ==
    /\ inputType = "hex"
    /\ colorInput = <<"3", "b", "8", "2", "f", "6">>
    /\ currentColor = <<"#", "3", "b", "8", "2", "f", "6">>
    /\ hexToRgb(currentColor) = [r |-> 59, g |-> 130, b |-> 246]

\* C10: in every reachable state currentColor is '#' followed by exactly 6
\* hexadecimal digits, so hexToRgb(currentColor) and colorInfo are never null.
C10_ColorAlwaysHex ==
    /\ Len(currentColor) = 7
    /\ currentColor[1] = "#"
    /\ \A i \in 2..7 : IsHexDigit(currentColor[i])
    /\ hexToRgb(currentColor) # Null
    /\ colorInfo(currentColor) # Null

\* Black was accepted under rgb (every digit is a padding zero), then a text
\* was rejected.
C10_Witness ==
    /\ inputType = "rgb"
    /\ currentColor = <<"#", "0", "0", "0", "0", "0", "0">>
    /\ colorInput # <<>>
    /\ Rejected(colorInput, inputType)

(***************************************************************************)
(* Properties of the codec (CodecSpec)                                     *)
(***************************************************************************)

\* C3: hexToRgb(rgbToHex(r, g, b)) is not null and is (r, g, b).
C3_HexRoundTrip ==
    codec.op = "hexToRgb" => (codec.val # Null /\ codec.val = sample)

\* The round trip of a colour whose red and green digits are all zeros.
C3_Witness ==
    /\ codec.op = "hexToRgb"
    /\ sample = [r |-> 0, g |-> 0, b |-> 255]
    /\ codec.val = sample

\* C4: rgbToYcbcr yields integers y in [16,235], cb and cr in [16,240].
C4_YcbcrRange ==
    codec.op = "rgbToYcbcr"
        => /\ codec.val.y \in 16..235
           /\ codec.val.cb \in 16..240
           /\ codec.val.cr \in 16..240

\* White: y is clamped to 235.
C4_Witness ==
    /\ codec.op = "rgbToYcbcr"
    /\ sample = [r |-> 255, g |-> 255, b |-> 255]
    /\ codec.val = [y |-> 235, cb |-> 128, cr |-> 128]

Abs(n) == IF n < 0 THEN -n ELSE n

\* C5: ycbcrToRgb(rgbToYcbcr(r, g, b)) differs from (r, g, b) by at most 3
\* levels in each channel.
C5_RoundTripWithin3 ==
    codec.op = "ycbcrToRgb"
        => /\ Abs(codec.val.r - sample.r) <= 3
           /\ Abs(codec.val.g - sample.g) <= 3
           /\ Abs(codec.val.b - sample.b) <= 3

\* Two digits of a byte, taken from a row of 16 digits.
TwoDigits(n, row) == <<row[(n \div 16) + 1], row[(n % 16) + 1]>>

UpperHexDigits == toUpperCase(HexDigits)

\* C6, as claimed: rgbToHex yields '#' and each channel as 2 upper-case
\* hexadecimal digits, in the order r, g, b.
C6_UpperCaseHex ==
    codec.op = "rgbToHex"
        => codec.val = <<"#">> \o TwoDigits(sample.r, UpperHexDigits)
                               \o TwoDigits(sample.g, UpperHexDigits)
                               \o TwoDigits(sample.b, UpperHexDigits)

\* C6, amended: rgbToHex yields a 7-character string, '#' and each channel as
\* 2 lower-case hexadecimal digits (0-9, a-f), zero-padded, in the order r, g, b.
C6_LowerCaseHex ==
    codec.op = "rgbToHex"
        => /\ Len(codec.val) = 7
           /\ codec.val = <<"#">> \o TwoDigits(sample.r, HexDigits)
                                  \o TwoDigits(sample.g, HexDigits)
                                  \o TwoDigits(sample.b, HexDigits)

\* (59, 130, 246) is formatted with the letters b and f.
C6_Witness ==
    /\ codec.op = "rgbToHex"
    /\ sample = [r |-> 59, g |-> 130, b |-> 246]
    /\ codec.val = <<"#", "3", "b", "8", "2", "f", "6">>

\* Clamping an integer.
Clamp(n, lo, hi) == Max(lo, Min(hi, n))

\* C9: each component of rgbToYcbcr is the BT.601 expression rounded to the
\* nearest integer (a half rounds up) and clamped afterwards.
C9_RoundThenClamp ==
    codec.op = "rgbToYcbcr"
        => codec.val =
            [y  |-> Clamp(MathRound(yOf(sample.r, sample.g, sample.b)), 16, 235),
             cb |-> Clamp(MathRound(cbOf(sample.r, sample.g, sample.b)), 16, 240),
             cr |-> Clamp(MathRound(crOf(sample.r, sample.g, sample.b)), 16, 240)]

\* Blue: cb is 255.5 before the clamp, which rounds to 256 and clamps to 240.
C9_Witness ==
    /\ codec.op = "rgbToYcbcr"
    /\ sample = [r |-> 0, g |-> 0, b |-> 255]
    /\ MathRound(cbOf(0, 0, 255)) = 256
    /\ codec.val.cb = 240

====
